---- MODULE Spec2Model ----
(***************************************************************************)
(* ClassIn gradebook converter: utils/csvHelper.ts (parseCSV,              *)
(* findHeaderRowIndex, getUniqueNonNumericMarks, processClassInToGradebook,*)
(* getWorkingDaysFromStartToToday), App.tsx (handleFileSelect and the      *)
(* re-processing effect) and the GradeMapper editor.                       *)
(*                                                                         *)
(* Strings are sequences of one-character strings (a character outside    *)
(* ASCII is written by its code point: "u5DF2" is U+5DF2), so that trim,   *)
(* toUpperCase, parseFloat, includes, startsWith and toFixed are computed  *)
(* character by character.  Numbers are exact rationals [n, d] (d > 0);    *)
(* NaN is a value of its own.                                              *)
(***************************************************************************)
EXTENDS Integers, Sequences, FiniteSets, TLC

VARIABLES
    rawContent,     \* App state: the text of the selected file (empty: none)
    fileName,       \* App state: its name
    gradeMapping,   \* App state: the status -> percentage mapping
    selectedDate,   \* App state: the start date, yyyy-mm-dd
    processedData,  \* App state: the records of the last conversion
    today,          \* the local date new Date() gives
    parsed,         \* parseCSV(...).data, the table the passes work on
    foundStatuses,  \* the result of getUniqueNonNumericMarks
    headerIdx,      \* the result of findHeaderRowIndex
    csvContent,     \* the text generateCSVContent gives the download
    pc,             \* the last operation
    steps           \* the number of user operations so far

vars == <<rawContent, fileName, gradeMapping, selectedDate, processedData, today,
          parsed, foundStatuses, headerIdx, csvContent, pc, steps>>

(***************************************************************************)
(* Characters and strings                                                  *)
(***************************************************************************)
Digits == <<"0", "1", "2", "3", "4", "5", "6", "7", "8", "9">>

LowerCase == <<"a", "b", "c", "d", "e", "f", "g", "h", "i", "j", "k", "l", "m",
               "n", "o", "p", "q", "r", "s", "t", "u", "v", "w", "x", "y", "z">>

UpperCase == <<"A", "B", "C", "D", "E", "F", "G", "H", "I", "J", "K", "L", "M",
               "N", "O", "P", "Q", "R", "S", "T", "U", "V", "W", "X", "Y", "Z">>

IsDigit(c) == \E i \in 1..10 : Digits[i] = c

DigitVal(c) == (CHOOSE i \in 1..10 : Digits[i] = c) - 1

IsSpace(c) == c \in {" ", "\t", "\r"}

RECURSIVE trimStart(_)
trimStart(s) ==
    IF s # <<>> /\ IsSpace(Head(s)) THEN trimStart(Tail(s)) ELSE s

RECURSIVE trimEnd(_)
trimEnd(s) ==
    IF s # <<>> /\ IsSpace(s[Len(s)]) THEN trimEnd(SubSeq(s, 1, Len(s) - 1)) ELSE s

\* String.prototype.trim
trim(s) == trimEnd(trimStart(s))

UpperChar(c) ==
    IF \E i \in 1..26 : LowerCase[i] = c
    THEN UpperCase[CHOOSE i \in 1..26 : LowerCase[i] = c]
    ELSE c

\* String.prototype.toUpperCase
toUpperCase(s) == [i \in 1..Len(s) |-> UpperChar(s[i])]

\* String.prototype.startsWith
startsWith(s, p) == Len(s) >= Len(p) /\ SubSeq(s, 1, Len(p)) = p

\* String.prototype.includes
includes(s, h) == \E i \in 0..(Len(s) - Len(h)) : SubSeq(s, i + 1, i + Len(h)) = h

\* s.replace(/[^\d.]/g, '')
RECURSIVE keepDigitsAndDots(_)
keepDigitsAndDots(s) ==
    IF s = <<>> THEN <<>>
    ELSE IF IsDigit(Head(s)) \/ Head(s) = "."
         THEN <<Head(s)>> \o keepDigitsAndDots(Tail(s))
         ELSE keepDigitsAndDots(Tail(s))

(***************************************************************************)
(* Numbers                                                                 *)
(***************************************************************************)
NaN == [nan |-> TRUE]

Num(n, d) == [n |-> n, d |-> d]

isNaN(x) == x = NaN

\* the longest prefix of s made of digits
RECURSIVE digitPrefix(_)
digitPrefix(s) ==
    IF s # <<>> /\ IsDigit(Head(s)) THEN <<Head(s)>> \o digitPrefix(Tail(s)) ELSE <<>>

RECURSIVE digitsValue(_)
digitsValue(ds) ==
    IF ds = <<>> THEN 0
    ELSE 10 * digitsValue(SubSeq(ds, 1, Len(ds) - 1)) + DigitVal(ds[Len(ds)])

RECURSIVE pow10(_)
pow10(k) == IF k = 0 THEN 1 ELSE 10 * pow10(k - 1)

\* parseFloat: leading white space, an optional sign, digits, an optional
\* fraction; whatever follows is ignored; NaN when no digit is found.
parseFloat(s) ==
    LET t     == trimStart(s)
        neg   == t # <<>> /\ Head(t) = "-"
        sgn   == t # <<>> /\ Head(t) \in {"-", "+"}
        u     == IF sgn THEN Tail(t) ELSE t
        ip    == digitPrefix(u)
        rest  == SubSeq(u, Len(ip) + 1, Len(u))
        fp    == IF rest # <<>> /\ Head(rest) = "." THEN digitPrefix(Tail(rest)) ELSE <<>>
        mag   == digitsValue(ip) * pow10(Len(fp)) + digitsValue(fp)
    IN  IF ip = <<>> /\ fp = <<>> THEN NaN
        ELSE Num(IF neg THEN 0 - mag ELSE mag, pow10(Len(fp)))

NumAdd(x, y) == Num(x.n * y.d + y.n * x.d, x.d * y.d)

\* (percentage / 100) * totalMarksNum
PercentOf(percentage, total) == Num(percentage.n * total.n, percentage.d * 100 * total.d)

NumDivInt(x, k) == Num(x.n, x.d * k)

NumEq(x, y) == x.n * y.d = y.n * x.d

RECURSIVE natToString(_)
natToString(k) ==
    IF k < 10 THEN <<Digits[k + 1]>>
    ELSE natToString(k \div 10) \o <<Digits[(k % 10) + 1]>>

\* Number.prototype.toFixed(1): the nearest tenth, the larger one on a tie
toFixed1(x) ==
    IF isNaN(x) THEN <<"N", "a", "N">>
    ELSE LET a      == IF x.n < 0 THEN 0 - x.n ELSE x.n
             tenths == (20 * a + x.d) \div (2 * x.d)
             body   == natToString(tenths \div 10) \o <<".", Digits[(tenths % 10) + 1]>>
         IN  IF x.n < 0 THEN <<"-">> \o body ELSE body

(***************************************************************************)
(* findHeaderRowIndex                                                      *)
(***************************************************************************)
potentialHeaders ==
    << <<"S", "t", "u", "d", "e", "n", "t", " ", "N", "a", "m", "e">>,
       <<"u5B66", "u751F", "u59D3", "u540D">>,
       <<"u59D3", "u540D">>,
       <<"N", "a", "m", "e">> >>

HeaderScanLimit == 20

Min(a, b) == IF a < b THEN a ELSE b

\* row[i] || '' : a missing cell reads as the empty string
cellAt(row, i) == IF i <= Len(row) THEN row[i] ELSE <<>>

isHeaderRow(row) ==
    LET firstCell == trim(cellAt(row, 1))
    IN  \E k \in 1..Len(potentialHeaders) : includes(firstCell, potentialHeaders[k])

\* mutant: the scan is not limited to the first rows
findHeaderRowIndexUnlimited(data) ==
    LET hits == {i \in 0..(Len(data) - 1) : isHeaderRow(data[i + 1])}
    IN  IF hits # {} THEN CHOOSE i \in hits : \A j \in hits : i <= j ELSE 0

\* rows are numbered from 0 as in the source; data[i + 1] is row i
findHeaderRowIndex(data) ==
    LET hits == {i \in 0..(Min(Len(data), HeaderScanLimit) - 1) : isHeaderRow(data[i + 1])}
    IN  IF hits # {} THEN CHOOSE i \in hits : \A j \in hits : i <= j ELSE 0

(***************************************************************************)
(* GradeMapping: a JavaScript object, kept as the sequence of its          *)
(* [key, value] entries in insertion order, keys distinct.                 *)
(***************************************************************************)
Entry(k, v) == [key |-> k, value |-> v]

\* gradeMapping.hasOwnProperty(k)
hasOwnProperty(m, k) == \E i \in 1..Len(m) : m[i].key = k

\* gradeMapping[k]; undefined is rendered as the empty string, which the
\* callers' truthiness tests treat alike
lookup(m, k) ==
    IF hasOwnProperty(m, k) THEN m[CHOOSE i \in 1..Len(m) : m[i].key = k].value ELSE <<>>

\* { ...m, [k]: v }
setKey(m, k, v) ==
    IF hasOwnProperty(m, k)
    THEN [i \in 1..Len(m) |-> IF m[i].key = k THEN Entry(k, v) ELSE m[i]]
    ELSE Append(m, Entry(k, v))

\* mapped && !isNaN(parseFloat(mapped))
isNumericMapped(mapped) == mapped # <<>> /\ ~isNaN(parseFloat(mapped))

(***************************************************************************)
(* App.handleFileSelect: the merge of the discovered statuses, and the     *)
(* GradeMapper editor                                                      *)
(***************************************************************************)
\* mutant: a discovered status resets the entry it already has
RECURSIVE mergeStatusesOverwriting(_, _)
mergeStatusesOverwriting(next, statuses) ==
    IF statuses = <<>> THEN next
    ELSE mergeStatusesOverwriting(setKey(next, toUpperCase(Head(statuses)), <<"0">>),
                                  Tail(statuses))

\* foundStatuses.forEach(...) of the setGradeMapping updater
RECURSIVE mergeStatuses(_, _)
mergeStatuses(next, statuses) ==
    IF statuses = <<>> THEN next
    ELSE mergeStatuses(IF ~hasOwnProperty(next, toUpperCase(Head(statuses)))
                       THEN setKey(next, toUpperCase(Head(statuses)), <<"0">>)
                       ELSE next,
                       Tail(statuses))

\* entries.forEach(...) of GradeMapper.updateEntry
RECURSIVE updateEntryFrom(_, _, _, _, _)
updateEntryFrom(newMap, entries, oldKey, newKey, newValue) ==
    IF entries = <<>> THEN newMap
    ELSE updateEntryFrom(IF Head(entries).key = oldKey
                         THEN setKey(newMap, newKey, newValue)
                         ELSE setKey(newMap, Head(entries).key, Head(entries).value),
                         Tail(entries), oldKey, newKey, newValue)

updateEntry(mapping, oldKey, newKey, newValue) ==
    updateEntryFrom(<<>>, mapping, oldKey, newKey, newValue)

\* `New Grade ${entries.length + 1}`
newGradeKey(mapping) ==
    <<"N", "e", "w", " ", "G", "r", "a", "d", "e", " ">> \o natToString(Len(mapping) + 1)

addEntry(mapping) == setKey(mapping, newGradeKey(mapping), <<"0">>)

\* const { [keyToRemove]: _, ...rest } = mapping
removeEntry(mapping, keyToRemove) == SelectSeq(mapping, LAMBDA e : e.key # keyToRemove)

(***************************************************************************)
(* Status words, grade letters and literals of the source                  *)
(***************************************************************************)
Submitted == <<"u5DF2", "u63D0", "u4EA4">>
NotSubmitted == <<"u672A", "u63D0", "u4EA4">>
LateSubmitted == <<"u5DF2", "u8865", "u4EA4">>
Dash == <<"-">>
Dashes == <<"-", "-", "-">>
CategoryZh == <<"u6210", "u7EE9", "u7C7B", "u522B">>
CategoryEn == <<"C", "a", "t", "e", "g", "o", "r", "y">>
Coursework == <<"C", "o", "u", "r", "s", "e", "w", "o", "r", "k">>
Zero == <<"0">>

STANDARD_GRADES ==
    { <<"A", "*">>, <<"A">>, <<"B">>, <<"C">>, <<"D">>, <<"E">>, <<"F">>, <<"G">>, <<"U">> }

(***************************************************************************)
(* Assignment detection (shared by discovery and conversion)               *)
(***************************************************************************)
\* cleanMaxMarks of column i (numbered from 0)
cleanMaxMarks(maxMarksRow, i) == keepDigitsAndDots(cellAt(maxMarksRow, i + 1))

\* headerRow[i] && isNumeric
isValidColumn(headerRow, maxMarksRow, i) ==
    LET clean == cleanMaxMarks(maxMarksRow, i)
    IN  /\ cellAt(headerRow, i + 1) # <<>>
        /\ ~isNaN(parseFloat(clean))
        /\ clean # <<>>

RECURSIVE validAssignmentsFrom(_, _, _)
validAssignmentsFrom(headerRow, maxMarksRow, i) ==
    IF i >= Len(headerRow) THEN <<>>
    ELSE (IF isValidColumn(headerRow, maxMarksRow, i)
          THEN << [name          |-> headerRow[i + 1],
                   totalMarks    |-> cleanMaxMarks(maxMarksRow, i),
                   originalIndex |-> i] >>
          ELSE <<>>)
         \o validAssignmentsFrom(headerRow, maxMarksRow, i + 1)

validAssignments(headerRow, maxMarksRow) == validAssignmentsFrom(headerRow, maxMarksRow, 1)

\* mutant: the footer test is forgotten
isSkippedRowNoFooter(row) == cellAt(row, 1) = <<>>

\* !studentName || studentName.startsWith('---')
isSkippedRow(row) == cellAt(row, 1) = <<>> \/ startsWith(cellAt(row, 1), Dashes)

\* data.slice(headerIdx + 3)
studentDataRows(data, h) == SubSeq(data, h + 4, Len(data))

(***************************************************************************)
(* getUniqueNonNumericMarks                                                *)
(***************************************************************************)
addUnique(seq, x) == IF \E i \in 1..Len(seq) : seq[i] = x THEN seq ELSE Append(seq, x)

\* mutant: the cell is not compared with the header name
discoverCellNoHeaderGuard(uniqueSet, row, headerRow, index) ==
    LET raw == trim(cellAt(row, index + 1))
    IN  IF raw = Dash \/ raw = CategoryZh \/ raw = CategoryEn THEN uniqueSet
        ELSE IF raw # <<>> /\ isNaN(parseFloat(raw)) THEN addUnique(uniqueSet, raw)
        ELSE uniqueSet

\* the body of validIndices.forEach for one cell
discoverCell(uniqueSet, row, headerRow, index) ==
    LET raw == trim(cellAt(row, index + 1))
    IN  IF raw = trim(cellAt(headerRow, index + 1)) THEN uniqueSet
        ELSE IF raw = Dash \/ raw = CategoryZh \/ raw = CategoryEn THEN uniqueSet
        ELSE IF raw # <<>> /\ isNaN(parseFloat(raw)) THEN addUnique(uniqueSet, raw)
        ELSE uniqueSet

RECURSIVE discoverRow(_, _, _, _)
discoverRow(uniqueSet, row, headerRow, assignments) ==
    IF assignments = <<>> THEN uniqueSet
    ELSE discoverRow(discoverCell(uniqueSet, row, headerRow, Head(assignments).originalIndex),
                     row, headerRow, Tail(assignments))

RECURSIVE discoverRows(_, _, _, _)
discoverRows(uniqueSet, rows, headerRow, assignments) ==
    IF rows = <<>> THEN uniqueSet
    ELSE discoverRows(IF isSkippedRow(Head(rows)) THEN uniqueSet
                      ELSE discoverRow(uniqueSet, Head(rows), headerRow, assignments),
                      Tail(rows), headerRow, assignments)

getUniqueNonNumericMarks(data) ==
    IF Len(data) < 2 THEN <<>>
    ELSE LET h == findHeaderRowIndex(data)
         IN  IF Len(data) <= h + 1 THEN <<>>
             ELSE discoverRows(<<>>, studentDataRows(data, h), data[h + 1],
                               validAssignments(data[h + 1], data[h + 2]))

(***************************************************************************)
(* Dates: a Date is [year, month (0..11), date], as the Date getters give  *)
(***************************************************************************)
isLeapYear(y) == (y % 4 = 0 /\ y % 100 # 0) \/ y % 400 = 0

daysInMonth(y, m) ==
    IF m = 1 THEN (IF isLeapYear(y) THEN 29 ELSE 28)
    ELSE IF m \in {3, 5, 8, 10} THEN 30 ELSE 31

RECURSIVE daysBeforeMonth(_, _)
daysBeforeMonth(y, m) ==
    IF m = 0 THEN 0 ELSE daysBeforeMonth(y, m - 1) + daysInMonth(y, m - 1)

\* days since 31 December of year 0 (1 January of year 1, a Monday, is day 1):
\* the order of Date values and the base of getDay
dayNumber(dt) ==
    LET y == dt.year - 1
    IN  365 * y + (y \div 4) - (y \div 100) + (y \div 400)
        + daysBeforeMonth(dt.year, dt.month) + dt.date

\* Date.prototype.getDay: 0 = Sunday .. 6 = Saturday
getDay(dt) == dayNumber(dt) % 7

\* current.setDate(current.getDate() + 1)
nextDay(dt) ==
    IF dt.date < daysInMonth(dt.year, dt.month) THEN [dt EXCEPT !.date = dt.date + 1]
    ELSE IF dt.month < 11 THEN [year |-> dt.year, month |-> dt.month + 1, date |-> 1]
    ELSE [year |-> dt.year + 1, month |-> 0, date |-> 1]

\* String.prototype.split on one separator character: the pieces between
\* consecutive separators, from the start of s to its end
split(s, sep) ==
    LET seps      == {i \in 1..Len(s) : s[i] = sep}
        n         == Cardinality(seps)
        sepAt(k)  == IF k = 0 THEN 0
                     ELSE IF k = n + 1 THEN Len(s) + 1
                     ELSE CHOOSE i \in seps : Cardinality({j \in seps : j < i}) = k - 1
    IN  [k \in 1..(n + 1) |-> SubSeq(s, sepAt(k - 1) + 1, sepAt(k) - 1)]

\* String(n).padStart(2, '0')
padStart2(n) == IF n < 10 THEN <<"0">> \o natToString(n) ELSE natToString(n)

formatDDMMYYYY(dt) ==
    padStart2(dt.date) \o <<"/">> \o padStart2(dt.month + 1) \o <<"/">> \o natToString(dt.year)

\* mutant: only Saturday is skipped
RECURSIVE collectDaysButSaturday(_, _)
collectDaysButSaturday(current, todayDate) ==
    IF dayNumber(current) <= dayNumber(todayDate)
    THEN (IF getDay(current) # 6 THEN <<formatDDMMYYYY(current)>> ELSE <<>>)
         \o collectDaysButSaturday(nextDay(current), todayDate)
    ELSE <<>>

\* the while loop of getWorkingDaysFromStartToToday
RECURSIVE collectWorkingDays(_, _)
collectWorkingDays(current, todayDate) ==
    IF dayNumber(current) <= dayNumber(todayDate)
    THEN (IF getDay(current) # 0 /\ getDay(current) # 6
          THEN <<formatDDMMYYYY(current)>> ELSE <<>>)
         \o collectWorkingDays(nextDay(current), todayDate)
    ELSE <<>>

\* the start date is a value of the date input: digits only in each part
getWorkingDaysFromStartToToday(startDateStr, todayDate) ==
    LET parts == split(startDateStr, "-")
    IN  IF Len(parts) # 3 THEN <<startDateStr>>
        ELSE LET start == [year  |-> digitsValue(parts[1]),
                           month |-> digitsValue(parts[2]) - 1,
                           date  |-> digitsValue(parts[3])]
                 days  == collectWorkingDays(start, todayDate)
             IN  IF dayNumber(start) > dayNumber(todayDate) THEN <<formatDDMMYYYY(start)>>
                 ELSE IF Len(days) > 0 THEN days ELSE <<formatDDMMYYYY(start)>>

fallbackDateOf(dateStr) ==
    LET dateParts == split(dateStr, "-")
    IN  IF Len(dateParts) = 3
        THEN dateParts[3] \o <<"/">> \o dateParts[2] \o <<"/">> \o dateParts[1]
        ELSE dateStr

(***************************************************************************)
(* processClassInToGradebook: column statistics                            *)
(***************************************************************************)
\* mutant: a custom status with a numeric mapping counts as a numeric value
scanCellMappedIsNumeric(acc, row, assignment, gm) ==
    LET raw           == trim(cellAt(row, assignment.originalIndex + 1))
        totalMarksNum == parseFloat(assignment.totalMarks)
        numericVal    == parseFloat(raw)
        mapped        == lookup(gm, toUpperCase(raw))
    IN  IF isSkippedRow(row) THEN acc
        ELSE IF raw = <<>> THEN acc
        ELSE IF raw = trim(assignment.name) THEN acc
        ELSE IF raw = Dash THEN acc
        ELSE IF ~isNaN(numericVal)
             THEN [acc EXCEPT !.hasNumeric = TRUE,
                              !.valuesForAverage = Append(@, numericVal)]
        ELSE IF isNumericMapped(mapped)
             THEN [acc EXCEPT !.hasNumeric = TRUE,
                              !.valuesForAverage =
                                  Append(@, PercentOf(parseFloat(mapped), totalMarksNum))]
        ELSE IF toUpperCase(raw) \in STANDARD_GRADES
             THEN [acc EXCEPT !.hasGrade = TRUE]
        ELSE acc

\* one iteration of the loop over studentDataRows for one assignment
scanCell(acc, row, assignment, gm) ==
    LET raw           == trim(cellAt(row, assignment.originalIndex + 1))
        totalMarksNum == parseFloat(assignment.totalMarks)
        numericVal    == parseFloat(raw)
        mapped        == lookup(gm, toUpperCase(raw))
    IN  IF isSkippedRow(row) THEN acc
        ELSE IF raw = <<>> THEN acc
        ELSE IF raw = trim(assignment.name) THEN acc
        ELSE IF raw = Dash THEN acc
        ELSE IF ~isNaN(numericVal)
             THEN [acc EXCEPT !.hasNumeric = TRUE,
                              !.valuesForAverage = Append(@, numericVal)]
        ELSE IF toUpperCase(raw) \in STANDARD_GRADES
             THEN [acc EXCEPT !.hasGrade = TRUE,
                              !.valuesForAverage =
                                  IF isNumericMapped(mapped)
                                  THEN Append(@, PercentOf(parseFloat(mapped), totalMarksNum))
                                  ELSE @]
        ELSE [acc EXCEPT !.valuesForAverage =
                             IF isNumericMapped(mapped)
                             THEN Append(@, PercentOf(parseFloat(mapped), totalMarksNum))
                             ELSE @]

RECURSIVE scanColumn(_, _, _, _)
scanColumn(acc, rows, assignment, gm) ==
    IF rows = <<>> THEN acc
    ELSE scanColumn(scanCell(acc, Head(rows), assignment, gm), Tail(rows), assignment, gm)

\* values.reduce((a, b) => a + b, a)
RECURSIVE reduceSum(_, _)
reduceSum(a, values) ==
    IF values = <<>> THEN a ELSE reduceSum(NumAdd(a, Head(values)), Tail(values))

\* mutant: the sum is divided by the number of rows, not of values
columnStatOfPerRow(assignment, rows, gm) ==
    LET acc == scanColumn([hasNumeric |-> FALSE, hasGrade |-> FALSE, valuesForAverage |-> <<>>],
                          rows, assignment, gm)
    IN  [type    |-> IF acc.hasNumeric \/ acc.hasGrade THEN "MIXED" ELSE "PURE_STATUS",
         average |-> IF Len(acc.valuesForAverage) > 0
                     THEN NumDivInt(reduceSum(Num(0, 1), acc.valuesForAverage), Len(rows))
                     ELSE Num(0, 1)]

\* the statistics computed for one assignment (one pass of validAssignments.forEach)
columnStatOf(assignment, rows, gm) ==
    LET acc == scanColumn([hasNumeric |-> FALSE, hasGrade |-> FALSE, valuesForAverage |-> <<>>],
                          rows, assignment, gm)
    IN  [type    |-> IF acc.hasNumeric \/ acc.hasGrade THEN "MIXED" ELSE "PURE_STATUS",
         average |-> IF Len(acc.valuesForAverage) > 0
                     THEN NumDivInt(reduceSum(Num(0, 1), acc.valuesForAverage),
                                    Len(acc.valuesForAverage))
                     ELSE Num(0, 1)]

\* the position of the last assignment carrying the name: its forEach pass
\* writes last into a record keyed by name
lastWithName(assignments, name) ==
    CHOOSE i \in 1..Len(assignments) :
        /\ assignments[i].name = name
        /\ \A j \in (i + 1)..Len(assignments) : assignments[j].name # name

assignmentNames(assignments) == {assignments[i].name : i \in 1..Len(assignments)}

\* columnStats: Record<string, {type, average}>, keyed by assignment name
columnStats(assignments, rows, gm) ==
    [name \in assignmentNames(assignments) |->
        columnStatOf(assignments[lastWithName(assignments, name)], rows, gm)]

(***************************************************************************)
(* processClassInToGradebook: mark resolution and emission                 *)
(***************************************************************************)
endsWith(s, x) == Len(s) >= Len(x) /\ SubSeq(s, Len(s) - Len(x) + 1, Len(s)) = x

\* s.replace(/\.0$/, '.0')
replaceTrailingDotZero(s) ==
    IF endsWith(s, <<".", "0">>) THEN SubSeq(s, 1, Len(s) - 2) \o <<".", "0">> ELSE s

\* mutant: the Pure Status rules are applied whatever the column type
statusRuleIgnoringType(rawMark, stats, totalMarksNum) ==
    IF rawMark = Submitted
    THEN [applied |-> TRUE, value |-> toFixed1(totalMarksNum)]
    ELSE IF rawMark = NotSubmitted
    THEN [applied |-> TRUE, value |-> Zero]
    ELSE IF rawMark = LateSubmitted
    THEN [applied |-> TRUE, value |-> toFixed1(PercentOf(Num(60, 1), totalMarksNum))]
    ELSE [applied |-> FALSE, value |-> <<>>]

\* Rule 1a / 1b: the context-specific rule of the column type;
\* [applied, value] are ruleApplied and ruleValue
statusRule(rawMark, stats, totalMarksNum) ==
    IF stats.type = "PURE_STATUS"
    THEN IF rawMark = Submitted
         THEN [applied |-> TRUE, value |-> toFixed1(totalMarksNum)]
         ELSE IF rawMark = NotSubmitted
         THEN [applied |-> TRUE, value |-> Zero]
         ELSE IF rawMark = LateSubmitted
         THEN [applied |-> TRUE, value |-> toFixed1(PercentOf(Num(60, 1), totalMarksNum))]
         ELSE [applied |-> FALSE, value |-> <<>>]
    ELSE IF rawMark = NotSubmitted
         THEN [applied |-> TRUE, value |-> Zero]
         ELSE IF rawMark = Submitted
         THEN [applied |-> TRUE,
               value   |-> IF toFixed1(stats.average) # <<>>
                           THEN toFixed1(stats.average) ELSE Zero]
         ELSE [applied |-> FALSE, value |-> <<>>]

\* mutant: the mapped value is taken as the mark, not as a percentage
mappingMarkAbsolute(upperRaw, totalMarksNum, gm) ==
    IF hasOwnProperty(gm, upperRaw)
    THEN IF isNumericMapped(lookup(gm, upperRaw))
         THEN replaceTrailingDotZero(toFixed1(parseFloat(lookup(gm, upperRaw))))
         ELSE <<>>
    ELSE <<>>

\* Fallback to grade mapping
mappingMark(upperRaw, totalMarksNum, gm) ==
    IF hasOwnProperty(gm, upperRaw)
    THEN IF isNumericMapped(lookup(gm, upperRaw))
         THEN replaceTrailingDotZero(
                  toFixed1(PercentOf(parseFloat(lookup(gm, upperRaw)), totalMarksNum)))
         ELSE <<>>
    ELSE <<>>

\* mutant: "-" is not handled first and reaches the mapping
resolveMarkDashLast(rawMark, stats, totalMarksNum, gm) ==
    LET rule == statusRule(rawMark, stats, totalMarksNum)
    IN  IF rule.applied THEN replaceTrailingDotZero(rule.value)
        ELSE IF hasOwnProperty(gm, toUpperCase(rawMark))
        THEN mappingMark(toUpperCase(rawMark), totalMarksNum, gm)
        ELSE IF ~isNaN(parseFloat(rawMark))
        THEN replaceTrailingDotZero(toFixed1(parseFloat(rawMark)))
        ELSE <<>>

\* mutant: the mapping is consulted before the status-word rules
resolveMarkMappingFirst(rawMark, stats, totalMarksNum, gm) ==
    LET rule == statusRule(rawMark, stats, totalMarksNum)
    IN  IF rawMark = Dash THEN <<>>
        ELSE IF hasOwnProperty(gm, toUpperCase(rawMark))
        THEN mappingMark(toUpperCase(rawMark), totalMarksNum, gm)
        ELSE IF rule.applied THEN replaceTrailingDotZero(rule.value)
        ELSE IF ~isNaN(parseFloat(rawMark))
        THEN replaceTrailingDotZero(toFixed1(parseFloat(rawMark)))
        ELSE <<>>

\* finalMark of one cell
resolveMark(rawMark, stats, totalMarksNum, gm) ==
    LET numericMark == parseFloat(rawMark)
        upperRaw    == toUpperCase(rawMark)
        rule        == statusRule(rawMark, stats, totalMarksNum)
    IN  IF rawMark = Dash THEN <<>>
        ELSE IF rule.applied THEN replaceTrailingDotZero(rule.value)
        ELSE IF ~isNaN(numericMark) THEN replaceTrailingDotZero(toFixed1(numericMark))
        ELSE mappingMark(upperRaw, totalMarksNum, gm)

\* mutant: the total of a record is the cleaned max-marks text as it is
processCellRawTotal(row, assignment, stats, assignmentDates, fallbackDate, gm) ==
    LET rawMark       == trim(cellAt(row, assignment.originalIndex + 1))
        totalMarksNum == parseFloat(assignment.totalMarks)
    IN  IF rawMark = trim(assignment.name) THEN <<>>
        ELSE << [StudentName        |-> cellAt(row, 1),
                 AssignmentName     |-> assignment.name,
                 AssignmentDate     |-> IF assignmentDates[assignment.name] # <<>>
                                        THEN assignmentDates[assignment.name]
                                        ELSE fallbackDate,
                 Category           |-> Coursework,
                 Marks              |-> resolveMark(rawMark, stats[assignment.name],
                                                    totalMarksNum, gm),
                 TotalMarksPossible |-> assignment.totalMarks] >>

\* the body of validAssignments.forEach inside studentDataRows.forEach:
\* the records it pushes (none or one)
processCell(row, assignment, stats, assignmentDates, fallbackDate, gm) ==
    LET rawMark       == trim(cellAt(row, assignment.originalIndex + 1))
        totalMarksNum == parseFloat(assignment.totalMarks)
    IN  IF rawMark = trim(assignment.name) THEN <<>>
        ELSE << [StudentName        |-> cellAt(row, 1),
                 AssignmentName     |-> assignment.name,
                 AssignmentDate     |-> IF assignmentDates[assignment.name] # <<>>
                                        THEN assignmentDates[assignment.name]
                                        ELSE fallbackDate,
                 Category           |-> Coursework,
                 Marks              |-> resolveMark(rawMark, stats[assignment.name],
                                                    totalMarksNum, gm),
                 TotalMarksPossible |-> toFixed1(totalMarksNum)] >>

RECURSIVE processRow(_, _, _, _, _, _)
processRow(row, assignments, stats, assignmentDates, fallbackDate, gm) ==
    IF assignments = <<>> THEN <<>>
    ELSE processCell(row, Head(assignments), stats, assignmentDates, fallbackDate, gm)
         \o processRow(row, Tail(assignments), stats, assignmentDates, fallbackDate, gm)

RECURSIVE processRows(_, _, _, _, _, _)
processRows(rows, assignments, stats, assignmentDates, fallbackDate, gm) ==
    IF rows = <<>> THEN <<>>
    ELSE (IF isSkippedRow(Head(rows)) THEN <<>>
          ELSE processRow(Head(rows), assignments, stats, assignmentDates, fallbackDate, gm))
         \o processRows(Tail(rows), assignments, stats, assignmentDates, fallbackDate, gm)

\* the assignments the conversion detects in the table
detectedAssignments(data) ==
    LET h == findHeaderRowIndex(data)
    IN  IF Len(data) < h + 2 THEN <<>> ELSE validAssignments(data[h + 1], data[h + 2])

\* the values Math.random can give assignmentDates: one working day per name
dateDraws(data, dateStr, todayDate) ==
    LET workingDays == getWorkingDaysFromStartToToday(dateStr, todayDate)
    IN  [assignmentNames(detectedAssignments(data)) ->
            {workingDays[i] : i \in 1..Len(workingDays)}]

\* processClassInToGradebook, given the dates drawn for the assignments
processClassInToGradebook(data, dateStr, gm, assignmentDates) ==
    LET h == findHeaderRowIndex(data)
    IN  IF Len(data) < h + 2 THEN <<>>
        ELSE LET rows        == studentDataRows(data, h)
                 assignments == validAssignments(data[h + 1], data[h + 2])
             IN  processRows(rows, assignments, columnStats(assignments, rows, gm),
                             assignmentDates, fallbackDateOf(dateStr), gm)

(***************************************************************************)
(* parseCSVLine, parseCSV                                                  *)
(***************************************************************************)
Quote == "\""

\* s.replace(/""/g, '"')
RECURSIVE collapseQuotes(_)
collapseQuotes(s) ==
    IF Len(s) < 2 THEN s
    ELSE IF s[1] = Quote /\ s[2] = Quote
         THEN <<Quote>> \o collapseQuotes(SubSeq(s, 3, Len(s)))
         ELSE <<s[1]>> \o collapseQuotes(Tail(s))

\* Remove surrounding quotes if present, then trim
cellValue(value) ==
    trim(IF startsWith(value, <<Quote>>) /\ endsWith(value, <<Quote>>)
         THEN collapseQuotes(SubSeq(value, 2, Len(value) - 1))
         ELSE value)

\* the for loop of parseCSVLine from position i (numbered from 0), and the
\* push of the last value
RECURSIVE parseCSVLineFrom(_, _, _, _)
parseCSVLineFrom(line, i, startValueIndex, inQuotes) ==
    IF i >= Len(line) THEN <<cellValue(SubSeq(line, startValueIndex + 1, Len(line)))>>
    ELSE IF line[i + 1] = Quote
         THEN parseCSVLineFrom(line, i + 1, startValueIndex, ~inQuotes)
    ELSE IF line[i + 1] = "," /\ ~inQuotes
         THEN <<cellValue(SubSeq(line, startValueIndex + 1, i))>>
              \o parseCSVLineFrom(line, i + 1, i + 1, inQuotes)
    ELSE parseCSVLineFrom(line, i + 1, startValueIndex, inQuotes)

parseCSVLine(line) == parseCSVLineFrom(line, 0, 0, FALSE)

\* content.split(/\r?\n/)
splitLines(content) ==
    LET pieces == split(content, "\n")
    IN  [k \in 1..Len(pieces) |->
            IF k < Len(pieces) /\ endsWith(pieces[k], <<"\r">>)
            THEN SubSeq(pieces[k], 1, Len(pieces[k]) - 1)
            ELSE pieces[k]]

\* [...row, ...Array(headerLength - row.length).fill('')]
padRow(row, headerLength) ==
    IF Len(row) < headerLength
    THEN row \o [k \in 1..(headerLength - Len(row)) |-> <<>>]
    ELSE row

\* parseCSV(content).data
parseCSV(content) ==
    LET lines == SelectSeq(splitLines(content), LAMBDA line : trim(line) # <<>>)
        data  == [k \in 1..Len(lines) |-> parseCSVLine(lines[k])]
    IN  IF Len(lines) = 0 THEN <<>>
        ELSE [k \in 1..Len(data) |-> padRow(data[k], Len(data[1]))]

(***************************************************************************)
(* Inputs of the conversion: ClassIn exports as parseCSV returns them      *)
(* (cells trimmed, rows of one width): junk rows, the header row, the      *)
(* max-marks row, the category row and two student rows over two           *)
(* assignment columns.                                                     *)
(***************************************************************************)
MaxJunkRows == 1

StudentNameLabel == <<"S", "t", "u", "d", "e", "n", "t", " ", "N", "a", "m", "e">>
HW1 == <<"H", "W", "1">>
HW2 == <<"H", "W", "2">>
Ann == <<"A", "n", "n">>
Bob == <<"B", "o", "b">>
TotalFooter == <<"-", "-", "-", "T", "o", "t", "a", "l">>
NeedsFix == <<"u9700", "u8BA2", "u6B63">>
Report == <<"R", "e", "p", "o", "r", "t">>
MaxLabel == <<"M", "a", "x">>

\* cells of the first assignment column
ConvCells ==
    { <<>>, Dash, Submitted, NotSubmitted, LateSubmitted,
      <<"7", ".", "5">>, <<"a">>, NeedsFix, HW1 }

\* header and max-marks cell of the second column: a second assignment, an
\* assignment of the same name as the first, no header, no numeric maximum
ConvSecondHeads ==
    { <<HW2, <<"1", "0", "0">> >>, <<HW1, <<"1", "0", "0">> >>,
      <<<<>>, <<"1", "0", "0">> >>, <<HW2, <<"N", "/", "A">> >> }

\* the two student cells of the second column
ConvSecondCells ==
    { << <<"A">>, <<"8">> >>, <<Submitted, CategoryEn>>, <<LateSubmitted, <<"8", "x">> >>,
      <<Dash, NeedsFix>> }

ConvSecondNames == {Bob, <<>>, TotalFooter}

junkRows(j) == [k \in 1..j |-> <<Report, <<>>, <<>> >>]

ConvTable(j, head2, c1, c2, cells2, name2) ==
    junkRows(j) \o
    << <<StudentNameLabel, HW1, head2[1]>>,
       <<MaxLabel, <<"5", "0", "u5206">>, head2[2]>>,
       <<CategoryZh, Coursework, Coursework>>,
       <<Ann, c1, cells2[1]>>,
       <<name2, c2, cells2[2]>> >>

ConvTables ==
    { ConvTable(j, head2, c1, c2, cells2, name2) :
        j \in 0..MaxJunkRows, head2 \in ConvSecondHeads, c1 \in ConvCells,
        c2 \in ConvCells, cells2 \in ConvSecondCells, name2 \in ConvSecondNames }

\* the mapping App.tsx starts with
defaultMapping ==
    << Entry(<<"A", "*">>, <<"1", "0", "0">>), Entry(<<"A">>, <<"9", "0">>),
       Entry(<<"B">>, <<"8", "0">>), Entry(<<"C">>, <<"7", "0">>),
       Entry(<<"D">>, <<"6", "0">>), Entry(<<"E">>, <<"5", "0">>),
       Entry(<<"U">>, <<"0">>), Entry(NeedsFix, <<"5", "0">>),
       Entry(LateSubmitted, <<"6", "0">>),
       Entry(<<"u5DF2", "u8BA2", "u6B63">>, <<"8", "0">>) >>

\* a mapping the editor can produce: entries for the status words and "-",
\* a non-numeric value for a grade letter
editedMapping ==
    << Entry(<<"A">>, <<"a", "b", "c">>), Entry(NeedsFix, <<"7", "5">>),
       Entry(LateSubmitted, <<"8", "0">>), Entry(Submitted, <<"3", "0">>),
       Entry(NotSubmitted, <<"4", "0">>), Entry(Dash, <<"5", "0">>) >>

ConvMappings == {defaultMapping, editedMapping, <<>>}

Tuesday == [year |-> 2026, month |-> 10, date |-> 3]

\* yyyy-mm-dd, the value of the date input
isoDate(dt) ==
    natToString(dt.year) \o <<"-">> \o padStart2(dt.month + 1) \o <<"-">> \o padStart2(dt.date)

(***************************************************************************)
(* SpecConv: processClassInToGradebook and getUniqueNonNumericMarks        *)
(* applied to the inputs above                                             *)
(***************************************************************************)
InitConv ==
    /\ parsed \in ConvTables
    /\ gradeMapping \in ConvMappings
    /\ today = Tuesday
    /\ selectedDate = isoDate(Tuesday)
    /\ rawContent = <<>>
    /\ fileName = <<>>
    /\ foundStatuses = <<>>
    /\ headerIdx = 0
    /\ csvContent = <<>>
    /\ processedData = <<>>
    /\ pc = "input"
    /\ steps = 0

Convert ==
    /\ pc = "input"
    /\ \E assignmentDates \in dateDraws(parsed, selectedDate, today) :
           processedData' =
               processClassInToGradebook(parsed, selectedDate, gradeMapping, assignmentDates)
    /\ headerIdx' = findHeaderRowIndex(parsed)
    /\ pc' = "converted"
    /\ UNCHANGED <<rawContent, fileName, parsed, gradeMapping, selectedDate, today,
                   foundStatuses, csvContent, steps>>

Discover ==
    /\ pc = "input"
    /\ foundStatuses' = getUniqueNonNumericMarks(parsed)
    /\ headerIdx' = findHeaderRowIndex(parsed)
    /\ pc' = "discovered"
    /\ UNCHANGED <<rawContent, fileName, parsed, gradeMapping, selectedDate, today,
                   processedData, csvContent, steps>>

NextConv == Convert \/ Discover

SpecConv == InitConv /\ [][NextConv]_vars

(***************************************************************************)
(* Properties of the conversion.  Rows and columns are numbered from 0.    *)
(***************************************************************************)
TableCell(r, i) == cellAt(parsed[r + 1], i + 1)

TableHeader == findHeaderRowIndex(parsed)

\* student rows: at index >= h + 3, first cell non-empty and not starting with "---"
QualifyingRows ==
    {r \in (TableHeader + 3)..(Len(parsed) - 1) :
        /\ TableCell(r, 0) # <<>>
        /\ ~(Len(TableCell(r, 0)) >= 3 /\ SubSeq(TableCell(r, 0), 1, 3) = <<"-", "-", "-">>)}

TotalOfColumn(i) == parseFloat(keepDigitsAndDots(TableCell(TableHeader + 1, i)))

\* assignment columns: i >= 1, header cell non-empty, cleaned max-marks cell numeric
ValidColumns ==
    IF Len(parsed) < TableHeader + 2 THEN {}
    ELSE {i \in 1..(Len(parsed[TableHeader + 1]) - 1) :
            /\ TableCell(TableHeader, i) # <<>>
            /\ keepDigitsAndDots(TableCell(TableHeader + 1, i)) # <<>>
            /\ ~isNaN(TotalOfColumn(i))}

CellText(p) == trim(TableCell(p[1], p[2]))

ColumnName(i) == TableCell(TableHeader, i)

\* the (student row, assignment column) pairs whose cell differs from the column's name
EmittedPairs ==
    {p \in QualifyingRows \X ValidColumns : CellText(p) # trim(ColumnName(p[2]))}

PairBefore(p, q) == p[1] < q[1] \/ (p[1] = q[1] /\ p[2] < q[2])

\* the pair the k-th record comes from: rows in order, columns in order within a row
PairOfRecord(k) ==
    CHOOSE p \in EmittedPairs : Cardinality({q \in EmittedPairs : PairBefore(q, p)}) = k - 1

RecordIndices == 1..Min(Len(processedData), Cardinality(EmittedPairs))

\* the ColumnStat the resolver reads for column i: columnStats[assignment.name]
StatRead(i) ==
    columnStats(detectedAssignments(parsed), studentDataRows(parsed, TableHeader),
                gradeMapping)[ColumnName(i)]

IsZeroMark(m) == ~isNaN(parseFloat(m)) /\ parseFloat(m).n = 0

\* step 5 of the resolver: (value / 100) x totalMarks for a numeric entry
\* under the uppercased cell, empty otherwise
MappedMark(c, total) ==
    IF \E k \in 1..Len(gradeMapping) :
           /\ gradeMapping[k].key = toUpperCase(c)
           /\ gradeMapping[k].value # <<>>
           /\ ~isNaN(parseFloat(gradeMapping[k].value))
    THEN LET e == gradeMapping[CHOOSE k \in 1..Len(gradeMapping) :
                                   gradeMapping[k].key = toUpperCase(c)]
         IN  toFixed1(Num(parseFloat(e.value).n * total.n,
                          parseFloat(e.value).d * 100 * total.d))
    ELSE <<>>

\* steps 4 and 5
FallThroughMark(c, total) ==
    IF ~isNaN(parseFloat(c)) THEN toFixed1(parseFloat(c)) ELSE MappedMark(c, total)

\* C1 as stated: the number of records is (qualifying students) x (valid
\* assignment columns), no pair being dropped whatever the cell holds.
C1_Original ==
    pc = "converted" =>
        Len(processedData) = Cardinality(QualifyingRows) * Cardinality(ValidColumns)

\* C1 amended: there is exactly one record per (qualifying student, valid
\* assignment column) pair whose trimmed cell differs from the trimmed
\* assignment name, in row then column order, carrying the student's and the
\* assignment's name; a pair whose cell equals the assignment name has none.
C1_RecordCount ==
    pc = "converted" =>
        /\ Len(processedData) = Cardinality(EmittedPairs)
        /\ \A k \in RecordIndices :
               /\ processedData[k].StudentName = TableCell(PairOfRecord(k)[1], 0)
               /\ processedData[k].AssignmentName = ColumnName(PairOfRecord(k)[2])

C1_Witness ==
    /\ pc = "converted"
    /\ Len(processedData) > 0
    /\ Cardinality(QualifyingRows) = 2
    /\ Cardinality(ValidColumns) = 2
    /\ Len(processedData) < 4

\* C2: a cell that is exactly "-" gives an empty mark, in a PureStatus and in
\* a Mixed column, whatever the mapping holds (an entry for "-" included).
C2_DashIsBlank ==
    pc = "converted" =>
        \A k \in RecordIndices :
            CellText(PairOfRecord(k)) = <<"-">> => processedData[k].Marks = <<>>

C2_Witness ==
    /\ pc = "converted"
    /\ hasOwnProperty(gradeMapping, <<"-">>)
    /\ \E k \in RecordIndices, j \in RecordIndices :
           /\ CellText(PairOfRecord(k)) = <<"-">>
           /\ StatRead(PairOfRecord(k)[2]).type = "MIXED"
           /\ processedData[k].Marks = <<>>
           /\ CellText(PairOfRecord(j)) = <<"-">>
           /\ StatRead(PairOfRecord(j)[2]).type = "PURE_STATUS"

\* C3: where the resolver reads a Mixed ColumnStat, a cell "submitted" gets
\* that ColumnStat's averageScore with one decimal and a cell "not submitted"
\* gets mark 0, whatever the mapping holds for the two words.
C3_MixedStatusWords ==
    pc = "converted" =>
        \A k \in RecordIndices :
            LET c  == CellText(PairOfRecord(k))
                st == StatRead(PairOfRecord(k)[2])
            IN  st.type = "MIXED" =>
                    /\ c = Submitted => processedData[k].Marks = toFixed1(st.average)
                    /\ c = NotSubmitted => IsZeroMark(processedData[k].Marks)

C3_Witness ==
    /\ pc = "converted"
    /\ hasOwnProperty(gradeMapping, Submitted)
    /\ \E k \in RecordIndices :
           /\ CellText(PairOfRecord(k)) = Submitted
           /\ StatRead(PairOfRecord(k)[2]).type = "MIXED"
           /\ NumEq(StatRead(PairOfRecord(k)[2]).average, Num(1125, 100))
           /\ processedData[k].Marks = <<"1", "1", ".", "3">>

\* C4: where the resolver reads a PureStatus ColumnStat, "submitted" gets
\* totalMarks, "not submitted" 0 and "late-submitted" 60% of totalMarks,
\* whatever the mapping holds; any other cell but "-" gets the numeric or
\* mapping result.
C4_PureStatusWords ==
    pc = "converted" =>
        \A k \in RecordIndices :
            LET c     == CellText(PairOfRecord(k))
                total == TotalOfColumn(PairOfRecord(k)[2])
                mark  == processedData[k].Marks
            IN  StatRead(PairOfRecord(k)[2]).type = "PURE_STATUS" =>
                    /\ c = Submitted => mark = toFixed1(total)
                    /\ c = NotSubmitted => IsZeroMark(mark)
                    /\ c = LateSubmitted => mark = toFixed1(Num(60 * total.n, 100 * total.d))
                    /\ c \notin {Submitted, NotSubmitted, LateSubmitted, <<"-">>}
                           => mark = FallThroughMark(c, total)

C4_Witness ==
    /\ pc = "converted"
    /\ lookup(gradeMapping, LateSubmitted) = <<"8", "0">>
    /\ \E k \in RecordIndices, j \in RecordIndices :
           /\ StatRead(PairOfRecord(k)[2]).type = "PURE_STATUS"
           /\ PairOfRecord(j)[2] = PairOfRecord(k)[2]
           /\ CellText(PairOfRecord(k)) = Submitted
           /\ processedData[k].Marks = <<"5", "0", ".", "0">>
           /\ CellText(PairOfRecord(j)) = LateSubmitted
           /\ processedData[j].Marks = <<"3", "0", ".", "0">>

\* the column type's status-word rule takes the cell
HandledByStatusRule(c, type) ==
    IF type = "PURE_STATUS" THEN c \in {Submitted, NotSubmitted, LateSubmitted}
    ELSE c \in {Submitted, NotSubmitted}

\* C5: a cell that is not "-", not taken by a status-word rule and not a
\* number gets (value / 100) x totalMarks from the entry under its uppercased
\* text when that value is a number, and an empty mark otherwise.
C5_MappingLookup ==
    pc = "converted" =>
        \A k \in RecordIndices :
            LET c == CellText(PairOfRecord(k))
                i == PairOfRecord(k)[2]
            IN  (/\ c # <<"-">>
                 /\ ~HandledByStatusRule(c, StatRead(i).type)
                 /\ isNaN(parseFloat(c)))
                    => processedData[k].Marks = MappedMark(c, TotalOfColumn(i))

C5_Witness ==
    /\ pc = "converted"
    /\ \E k \in RecordIndices, j \in RecordIndices :
           /\ CellText(PairOfRecord(k)) = <<"A">>
           /\ StatRead(PairOfRecord(k)[2]).type = "MIXED"
           /\ TotalOfColumn(PairOfRecord(k)[2]) = Num(100, 1)
           /\ lookup(gradeMapping, <<"A">>) = <<"9", "0">>
           /\ processedData[k].Marks = <<"9", "0", ".", "0">>
           /\ CellText(PairOfRecord(j)) = <<"a">>
           /\ processedData[j].Marks = <<"4", "5", ".", "0">>

\* the assignment detected in column i
AssignmentOfColumn(i) ==
    LET assignments == detectedAssignments(parsed)
    IN  assignments[CHOOSE k \in 1..Len(assignments) : assignments[k].originalIndex = i]

\* the type the classifier computes in its pass over column i
ClassifiedType(i) ==
    columnStatOf(AssignmentOfColumn(i), studentDataRows(parsed, TableHeader), gradeMapping).type

\* the cells of column i the classifier uses: of qualifying student rows, not
\* empty, not "-", not the assignment name
UsableCells(i) ==
    {trim(TableCell(r, i)) : r \in QualifyingRows} \ {<<>>, <<"-">>, trim(ColumnName(i))}

IsGradeLetter(c) ==
    toUpperCase(c) \in { <<"A", "*">>, <<"A">>, <<"B">>, <<"C">>, <<"D">>,
                         <<"E">>, <<"F">>, <<"G">>, <<"U">> }

\* C6: the classifier calls a column Mixed exactly when one of its usable
\* cells parses as a number or is, uppercased, a standard grade letter, and
\* PureStatus otherwise; a free-text token does not make the column Mixed even
\* when the mapping gives it a number.
C6_Classification ==
    pc = "converted" =>
        \A i \in ValidColumns :
            /\ ClassifiedType(i) \in {"MIXED", "PURE_STATUS"}
            /\ ClassifiedType(i) = "MIXED"
                   <=> \E c \in UsableCells(i) : ~isNaN(parseFloat(c)) \/ IsGradeLetter(c)

C6_Witness ==
    /\ pc = "converted"
    /\ \E i \in ValidColumns, j \in ValidColumns :
           /\ UsableCells(i) = {NeedsFix}
           /\ isNumericMapped(lookup(gradeMapping, NeedsFix))
           /\ ClassifiedType(i) = "PURE_STATUS"
           /\ ClassifiedType(j) = "MIXED"
           /\ Len(processedData) = 4

\* the trimmed cells of valid assignment columns in qualifying student rows
AssignmentCells == {CellText(p) : p \in QualifyingRows \X ValidColumns}

FoundSet == {foundStatuses[k] : k \in 1..Len(foundStatuses)}

IsPurelyNumeric(c) ==
    /\ c # <<>>
    /\ \A k \in 1..Len(c) : IsDigit(c[k]) \/ c[k] = "."
    /\ ~isNaN(parseFloat(c))

\* C7 as stated: the discovery pass returns exactly the distinct non-empty
\* tokens of the assignment cells that are neither purely numeric nor a
\* standard grade letter.
C7_Original ==
    pc = "discovered" =>
        FoundSet = {c \in AssignmentCells :
                       c # <<>> /\ ~IsPurelyNumeric(c) /\ c \notin STANDARD_GRADES}

\* C7 amended: the discovery pass returns, each once, exactly the non-empty
\* tokens of the assignment cells that do not parse as a number, are not "-",
\* the category label (in either language) or their own column's name;
\* standard grade letters are returned like any other token, and no token that
\* parses as a number is.
C7_Discovery ==
    pc = "discovered" =>
        /\ FoundSet = {CellText(p) : p \in
                        {q \in QualifyingRows \X ValidColumns :
                            /\ CellText(q) # <<>>
                            /\ isNaN(parseFloat(CellText(q)))
                            /\ CellText(q) \notin {<<"-">>, CategoryZh, CategoryEn}
                            /\ CellText(q) # trim(ColumnName(q[2]))}}
        /\ Cardinality(FoundSet) = Len(foundStatuses)

C7_Witness ==
    /\ pc = "discovered"
    /\ <<"A">> \in FoundSet
    /\ Submitted \in FoundSet
    /\ <<"8">> \in AssignmentCells
    /\ HW1 \in AssignmentCells
    /\ Len(foundStatuses) = 2

(***************************************************************************)
(* SpecHeader: findHeaderRowIndex applied to tables of up to MaxHeaderRows *)
(* rows, junk but for at most two rows whose first cell holds a marker     *)
(***************************************************************************)
MaxHeaderRows == 22

HeaderMarkerCells ==
    { StudentNameLabel,
      <<"u5B66", "u751F", "u59D3", "u540D">>,
      <<"F", "u", "l", "l", " ", "N", "a", "m", "e", "s">> }

HeaderJunkCells == { Report, <<"n", "a", "m", "e">>, <<>> }

HeaderTable(n, marked, marker, junk) ==
    [k \in 1..n |-> IF (k - 1) \in marked THEN <<marker, HW1>> ELSE <<junk, <<>> >>]

HeaderTables ==
    { HeaderTable(n, {a, b}, marker, junk) :
        n \in 1..MaxHeaderRows, a \in 0..MaxHeaderRows, b \in 0..MaxHeaderRows,
        marker \in HeaderMarkerCells, junk \in HeaderJunkCells }

InitHeader ==
    /\ parsed \in HeaderTables
    /\ gradeMapping = defaultMapping
    /\ today = Tuesday
    /\ selectedDate = isoDate(Tuesday)
    /\ rawContent = <<>>
    /\ fileName = <<>>
    /\ foundStatuses = <<>>
    /\ headerIdx = 0
    /\ csvContent = <<>>
    /\ processedData = <<>>
    /\ pc = "input"
    /\ steps = 0

FindHeader ==
    /\ pc = "input"
    /\ headerIdx' = findHeaderRowIndex(parsed)
    /\ pc' = "located"
    /\ UNCHANGED <<rawContent, fileName, parsed, gradeMapping, selectedDate, today,
                   foundStatuses, processedData, csvContent, steps>>

NextHeader == FindHeader

SpecHeader == InitHeader /\ [][NextHeader]_vars

Contains(s, word) ==
    \E k \in 1..(Len(s) - Len(word) + 1) : SubSeq(s, k, k + Len(word) - 1) = word

\* the trimmed first cell of row i holds one of the four markers
HasMarker(i) ==
    LET c == trim(parsed[i + 1][1])
    IN  \/ Contains(c, <<"S", "t", "u", "d", "e", "n", "t", " ", "N", "a", "m", "e">>)
        \/ Contains(c, <<"u5B66", "u751F", "u59D3", "u540D">>)
        \/ Contains(c, <<"u59D3", "u540D">>)
        \/ Contains(c, <<"N", "a", "m", "e">>)

MarkerRows == {i \in 0..(Len(parsed) - 1) : i < 20 /\ HasMarker(i)}

\* C9: findHeaderRowIndex returns the smallest index below min(rowCount, 20)
\* of a row whose trimmed first cell contains a header marker, and 0 when
\* there is none.
C9_HeaderIndex ==
    pc = "located" =>
        IF MarkerRows = {} THEN headerIdx = 0
        ELSE headerIdx \in MarkerRows /\ \A i \in MarkerRows : headerIdx <= i

\* five junk rows, then a "Student Name" row: index 5
C9_Witness ==
    /\ pc = "located"
    /\ Len(parsed) = 8
    /\ \A i \in 0..4 : parsed[i + 1][1] = Report
    /\ parsed[6][1] = StudentNameLabel
    /\ headerIdx = 5

(***************************************************************************)
(* SpecDates: the conversion of one table for the start dates from one day *)
(* after today back to MaxDaysBack days before it, today running over a    *)
(* week that spans the end of a month                                      *)
(***************************************************************************)
MaxDaysBack == 4

RECURSIVE daysAfter(_, _)
daysAfter(dt, k) == IF k = 0 THEN dt ELSE daysAfter(nextDay(dt), k - 1)

FirstDay == [year |-> 2026, month |-> 9, date |-> 24]

\* the days today ranges over: Thursday 29 October .. Wednesday 4 November 2026
TodayOffsets == 5..11

DatesTable ==
    << <<StudentNameLabel, HW1, HW2>>,
       <<MaxLabel, <<"5", "0">>, <<"1", "0", "0">> >>,
       <<CategoryZh, Coursework, Coursework>>,
       <<Ann, <<"4", "0">>, <<"A">> >>,
       <<Bob, Submitted, <<"8", "8">> >> >>

InitDates ==
    /\ \E t \in TodayOffsets, back \in (0 - 1)..MaxDaysBack :
           /\ today = daysAfter(FirstDay, t)
           /\ selectedDate = isoDate(daysAfter(FirstDay, t - back))
    /\ parsed = DatesTable
    /\ gradeMapping = defaultMapping
    /\ rawContent = <<>>
    /\ fileName = <<>>
    /\ foundStatuses = <<>>
    /\ headerIdx = 0
    /\ csvContent = <<>>
    /\ processedData = <<>>
    /\ pc = "input"
    /\ steps = 0

NextDates == Convert

SpecDates == InitDates /\ [][NextDates]_vars

\* the calendar date a yyyy-mm-dd text names
DateOfIso(str) ==
    [year  |-> digitsValue(SubSeq(str, 1, 4)),
     month |-> digitsValue(SubSeq(str, 6, 7)) - 1,
     date  |-> digitsValue(SubSeq(str, 9, 10))]

\* the calendar date a dd/mm/yyyy text names
DateOfRecord(str) ==
    [year  |-> digitsValue(SubSeq(str, 7, 10)),
     month |-> digitsValue(SubSeq(str, 4, 5)) - 1,
     date  |-> digitsValue(SubSeq(str, 1, 2))]

IsDDMMYYYY(str) ==
    /\ Len(str) = 10
    /\ str[3] = "/" /\ str[6] = "/"
    /\ \A k \in {1, 2, 4, 5, 7, 8, 9, 10} : IsDigit(str[k])

\* Monday 2 November 2026
KnownMonday == [year |-> 2026, month |-> 10, date |-> 2]

\* Monday to Friday
IsWorkingDay(dt) == ((dayNumber(dt) - dayNumber(KnownMonday)) % 7) \in 0..4

StartDate == DateOfIso(selectedDate)

NoWorkingDayInRange ==
    \A k \in 0..(dayNumber(today) - dayNumber(StartDate)) :
        ~IsWorkingDay(daysAfter(StartDate, k))

\* dt is in the working-day set of [start, today]
InWorkingDaySet(dt) ==
    IF dayNumber(StartDate) > dayNumber(today) \/ NoWorkingDayInRange
    THEN dt = StartDate
    ELSE /\ dayNumber(StartDate) <= dayNumber(dt)
         /\ dayNumber(dt) <= dayNumber(today)
         /\ IsWorkingDay(dt)

\* C10: every record's AssignmentDate is a dd/mm/yyyy date of the working-day
\* set (Monday to Friday within [start, today], or start alone when start is
\* after today or the interval holds no working day); it is today when start
\* is today; records of one assignment carry one date.
C10_AssignmentDates ==
    pc = "converted" =>
        \A k \in 1..Len(processedData) :
            /\ IsDDMMYYYY(processedData[k].AssignmentDate)
            /\ InWorkingDaySet(DateOfRecord(processedData[k].AssignmentDate))
            /\ StartDate = today => DateOfRecord(processedData[k].AssignmentDate) = today
            /\ \A j \in 1..Len(processedData) :
                   processedData[j].AssignmentName = processedData[k].AssignmentName
                       => processedData[j].AssignmentDate = processedData[k].AssignmentDate

\* start on a Friday, today the Tuesday after: one assignment dated the
\* Friday of one month, the other the Monday of the next
C10_Witness ==
    /\ pc = "converted"
    /\ Len(processedData) = 4
    /\ dayNumber(today) - dayNumber(StartDate) = 4
    /\ processedData[1].AssignmentDate = <<"3", "0", "/", "1", "0", "/", "2", "0", "2", "6">>
    /\ processedData[2].AssignmentDate = <<"0", "2", "/", "1", "1", "/", "2", "0", "2", "6">>
    /\ processedData[3].AssignmentDate = processedData[1].AssignmentDate

(***************************************************************************)
(* Spec: the application.  A file is selected, the start date is changed,  *)
(* the mapping is edited; after each, the effect converts the content      *)
(* again when the content, the date or the mapping object changed.         *)
(***************************************************************************)
MaxSteps == 3

RECURSIVE joinWith(_, _)
joinWith(strings, sep) ==
    IF strings = <<>> THEN <<>>
    ELSE IF Len(strings) = 1 THEN strings[1]
    ELSE strings[1] \o sep \o joinWith(Tail(strings), sep)

\* the text of a file whose lines are the rows' cells joined by commas
csvText(table, newline) ==
    joinWith([k \in 1..Len(table) |-> joinWith(table[k], <<",">>)], newline)

Late == <<"L", "a", "t", "e">>
LateLower == <<"l", "a", "t", "e">>
LateUpper == <<"L", "A", "T", "E">>

FileA ==
    csvText(<< <<StudentNameLabel, HW1, HW2>>,
               <<MaxLabel, <<"5", "0">>, <<"1", "0", "0">> >>,
               <<CategoryZh, Coursework, Coursework>>,
               <<Ann, <<"A">>, LateLower>>,
               <<Bob, Submitted, <<"7", ".", "5">> >> >>, <<"\r", "\n">>)

FileB ==
    csvText(<< << <<Quote>> \o Report \o <<",", " ", "1", Quote>>, <<>>, <<>> >>,
               <<StudentNameLabel, HW1, HW2>>,
               <<MaxLabel, <<"5", "0">>, <<"1", "0", "0">> >>,
               <<CategoryZh, Coursework, Coursework>>,
               <<Ann, NeedsFix, Late>>,
               <<Bob, <<" ", "x", "y", "z", " ">>, Dash>> >>, <<"\n">>)

FileC == csvText(<< <<StudentNameLabel, HW1>> >>, <<"\n">>)

AppFiles == {FileA, FileB, FileC}

AppFileNames == { <<"a", ".", "c", "s", "v">>, <<"b", ".", "c", "s", "v">> }

Monday == [year |-> 2026, month |-> 10, date |-> 2]

AppDates == {isoDate(Monday), isoDate(Tuesday)}

\* the keys the editor operations of the model are applied to, the keys and
\* the values they type
EditKeys == { <<"A">>, NeedsFix, LateUpper }
TypedKeys == { LateLower }
TypedValues == { <<"7", "5">> }

Init ==
    /\ rawContent = <<>>
    /\ fileName = <<>>
    /\ gradeMapping = defaultMapping
    /\ today = Tuesday
    /\ selectedDate = isoDate(Tuesday)
    /\ processedData = <<>>
    /\ parsed = <<>>
    /\ foundStatuses = <<>>
    /\ headerIdx = 0
    /\ csvContent = <<>>
    /\ pc = "init"
    /\ steps = 0

\* the useEffect on [rawContent, selectedDate, gradeMapping]; its
\* parseCSV(rawContent) is the table the selection of the file has parsed
ReProcess(depsChanged) ==
    IF depsChanged /\ rawContent' # <<>>
    THEN \E assignmentDates \in dateDraws(parsed', selectedDate', today) :
             processedData' = processClassInToGradebook(parsed', selectedDate',
                                                        gradeMapping', assignmentDates)
    ELSE processedData' = processedData

HandleFileSelect(content, name) ==
    /\ steps < MaxSteps
    /\ rawContent' = content
    /\ fileName' = name
    /\ parsed' = parseCSV(content)
    /\ foundStatuses' = getUniqueNonNumericMarks(parsed')
    /\ headerIdx' = findHeaderRowIndex(parsed')
    /\ gradeMapping' = mergeStatuses(gradeMapping, foundStatuses')
    /\ UNCHANGED <<selectedDate, today, csvContent>>
    /\ ReProcess(content # rawContent \/ gradeMapping' # gradeMapping)
    /\ pc' = "select"
    /\ steps' = steps + 1

SetSelectedDate(d) ==
    /\ steps < MaxSteps
    /\ d # selectedDate
    /\ selectedDate' = d
    /\ UNCHANGED <<rawContent, fileName, gradeMapping, today, parsed, foundStatuses,
                   headerIdx, csvContent>>
    /\ ReProcess(TRUE)
    /\ pc' = "date"
    /\ steps' = steps + 1

\* onChange of the editor: setGradeMapping with a new object
OnChange(newMapping, op) ==
    /\ steps < MaxSteps
    /\ gradeMapping' = newMapping
    /\ UNCHANGED <<rawContent, fileName, selectedDate, today, parsed, foundStatuses,
                   headerIdx, csvContent>>
    /\ ReProcess(TRUE)
    /\ pc' = op
    /\ steps' = steps + 1

UpdateKey(oldKey, newKey) ==
    /\ hasOwnProperty(gradeMapping, oldKey)
    /\ OnChange(updateEntry(gradeMapping, oldKey, newKey, lookup(gradeMapping, oldKey)), "rename")

UpdateValue(key, newValue) ==
    /\ hasOwnProperty(gradeMapping, key)
    /\ OnChange(updateEntry(gradeMapping, key, key, newValue), "value")

AddEntry == OnChange(addEntry(gradeMapping), "add")

RemoveEntry(key) ==
    /\ hasOwnProperty(gradeMapping, key)
    /\ OnChange(removeEntry(gradeMapping, key), "remove")

Next ==
    \/ \E content \in AppFiles, name \in AppFileNames : HandleFileSelect(content, name)
    \/ \E d \in AppDates : SetSelectedDate(d)
    \/ \E k \in EditKeys, n \in TypedKeys : UpdateKey(k, n)
    \/ \E k \in EditKeys, v \in TypedValues : UpdateValue(k, v)
    \/ AddEntry
    \/ \E k \in EditKeys : RemoveEntry(k)

Spec == Init /\ [][Next]_vars

KeysOf(m) == {m[i].key : i \in 1..Len(m)}

\* the uppercased statuses the discovery pass of the step has found
FoundKeys == {toUpperCase(foundStatuses[k]) : k \in 1..Len(foundStatuses)}

\* C8: a file selection leaves every entry of the mapping as it was, adds
\* exactly the uppercased discovered statuses that were not keys, each with
\* value "0", and changes nothing when all of them were keys already, as when
\* the same content is selected again.
C8_SelectionKeepsMapping ==
    [][pc' = "select" =>
          /\ Len(gradeMapping') >= Len(gradeMapping)
          /\ \A i \in 1..Len(gradeMapping) : gradeMapping'[i] = gradeMapping[i]
          /\ \A i \in (Len(gradeMapping) + 1)..Len(gradeMapping') :
                 /\ gradeMapping'[i].value = <<"0">>
                 /\ gradeMapping'[i].key \in FoundKeys' \ KeysOf(gradeMapping)
                 /\ \A j \in 1..(i - 1) : gradeMapping'[j].key # gradeMapping'[i].key
          /\ FoundKeys' \subseteq KeysOf(gradeMapping')
          /\ (pc = "select" /\ rawContent' = rawContent) => gradeMapping' = gradeMapping
      ]_vars

\* after an edit of the value of "A", a file holding "A" and the new status
\* "late" was selected
C8_Witness ==
    /\ pc = "select"
    /\ steps = 2
    /\ <<"A">> \in FoundKeys
    /\ lookup(gradeMapping, <<"A">>) = <<"7", "5">>
    /\ LateUpper \in FoundKeys
    /\ lookup(gradeMapping, LateUpper) = <<"0">>
    /\ Len(processedData) = 4

(***************************************************************************)
(* generateCSVContent                                                      *)
(***************************************************************************)
csvHeaders ==
    << <<"S", "t", "u", "d", "e", "n", "t", " ", "N", "a", "m", "e">>,
       <<"A", "s", "s", "i", "g", "n", "m", "e", "n", "t", " ", "N", "a", "m", "e">>,
       <<"A", "s", "s", "i", "g", "n", "m", "e", "n", "t", " ", "D", "a", "t", "e">>,
       <<"C", "a", "t", "e", "g", "o", "r", "y">>,
       <<"M", "a", "r", "k", "s">>,
       <<"T", "o", "t", "a", "l", " ", "M", "a", "r", "k", "s", " ", "P", "o", "s", "s", "i", "b", "l", "e">> >>

\* s.replace(/"/g, '""')
RECURSIVE doubleQuotes(_)
doubleQuotes(s) ==
    IF s = <<>> THEN <<>>
    ELSE (IF Head(s) = Quote THEN <<Quote, Quote>> ELSE <<Head(s)>>) \o doubleQuotes(Tail(s))

\* the cells of one record: the student name and the category are wrapped in
\* quotes as they are, the assignment name with its quotes doubled, the date,
\* the mark and the total are not quoted
csvRow(row) ==
    << <<Quote>> \o row.StudentName \o <<Quote>>,
       <<Quote>> \o doubleQuotes(row.AssignmentName) \o <<Quote>>,
       row.AssignmentDate,
       <<Quote>> \o row.Category \o <<Quote>>,
       IF row.Marks # <<>> THEN row.Marks ELSE <<>>,
       row.TotalMarksPossible >>

generateCSVContent(rows) ==
    joinWith(<<joinWith(csvHeaders, <<",">>)>>
             \o [k \in 1..Len(rows) |-> joinWith(csvRow(rows[k]), <<",">>)],
             <<"\n">>)

(***************************************************************************)
(* SpecCsv: a file is parsed, converted and the records are written for    *)
(* the download.  The files are texts: an optional blank line, the header  *)
(* line, the max-marks line and the category line (each present or not),   *)
(* a student line with a quoted or plain name and extra cells, two more    *)
(* students and a footer of one cell.                                      *)
(***************************************************************************)
MaxExtraCells == 2

\* the header cell of the assignment column, as the file writes it
CsvHeadCells == { HW1, <<Quote, "H", ",", "1", Quote>>, <<Quote, "H", Quote, Quote, "1", Quote>> }

\* the max-marks line, or none
CsvMaxLines == { <<>>, <<"M", "a", "x", ",", "1", "0">>, <<"M", "a", "x", ",", "0">>, <<"M", "a", "x", ",", "$", "5">> }

\* the category line, or none
CsvCategoryLines == { <<>>, CategoryZh \o <<",", "C", "o", "u", "r", "s", "e", "w", "o", "r", "k">> }

\* the name cell of the first student, as the file writes it
CsvNameCells == { Ann, <<Quote, "a", ",", "b", Quote>>, <<Quote, "a", Quote, Quote, "b", Quote>>, <<" ", Quote, "q", Quote, " ">> }

RECURSIVE extraCells(_)
extraCells(k) == IF k = 0 THEN <<>> ELSE <<",", "8">> \o extraCells(k - 1)

CsvFile(blank, head, maxLine, categoryLine, name, extra) ==
    joinWith(SelectSeq(<< IF blank THEN <<" ">> ELSE <<>>,
                          StudentNameLabel \o <<",">> \o head,
                          maxLine,
                          categoryLine,
                          name \o <<",", "7">> \o extraCells(extra),
                          <<"B", "o", "b", ",", "8">>,
                          <<"C", "y", ",", "9">>,
                          TotalFooter >>,
                       LAMBDA line : line # <<>>),
             <<"\n">>)

CsvFiles ==
    { CsvFile(blank, head, maxLine, categoryLine, name, extra) :
        blank \in BOOLEAN, head \in CsvHeadCells, maxLine \in CsvMaxLines,
        categoryLine \in CsvCategoryLines, name \in CsvNameCells,
        extra \in 0..MaxExtraCells }

InitCsv ==
    /\ rawContent \in CsvFiles
    /\ fileName = <<>>
    /\ gradeMapping = defaultMapping
    /\ today = Tuesday
    /\ selectedDate = isoDate(Tuesday)
    /\ parsed = <<>>
    /\ foundStatuses = <<>>
    /\ headerIdx = 0
    /\ csvContent = <<>>
    /\ processedData = <<>>
    /\ pc = "file"
    /\ steps = 0

\* parseCSV(rawContent)
ParseFile ==
    /\ pc = "file"
    /\ parsed' = parseCSV(rawContent)
    /\ pc' = "input"
    /\ UNCHANGED <<rawContent, fileName, gradeMapping, selectedDate, today, foundStatuses,
                   headerIdx, csvContent, processedData, steps>>

\* handleDownload: nothing when there are no records
Download ==
    /\ pc = "converted"
    /\ Len(processedData) # 0
    /\ csvContent' = generateCSVContent(processedData)
    /\ pc' = "downloaded"
    /\ UNCHANGED <<rawContent, fileName, gradeMapping, selectedDate, today, parsed,
                   foundStatuses, headerIdx, processedData, steps>>

NextCsv == ParseFile \/ Convert \/ Download

SpecCsv == InitCsv /\ [][NextCsv]_vars

(***************************************************************************)
(* Properties of the emitted text                                          *)
(***************************************************************************)
\* the table parseCSV gives back for the emitted text
Reparsed == parseCSV(csvContent)

\* C11: parsing the emitted text again gives the header line and one row of
\* 6 cells per record, whose student name, assignment name and category are
\* the record's: a field holding commas or double quotes comes back as itself
\* and shifts no column.
C11_RoundTrip ==
    pc = "downloaded" =>
        /\ Len(Reparsed) = Len(processedData) + 1
        /\ \A k \in 1..Len(processedData) :
              /\ Len(Reparsed[k + 1]) = 6
              /\ Reparsed[k + 1][1] = processedData[k].StudentName
              /\ Reparsed[k + 1][2] = processedData[k].AssignmentName
              /\ Reparsed[k + 1][4] = processedData[k].Category

(***************************************************************************)
(* Rendering of marks and totals                                           *)
(***************************************************************************)
\* digits, a decimal point and one digit, as toFixed(1) writes a number
IsOneDecimal(m) ==
    LET body == IF Len(m) > 0 /\ m[1] = "-" THEN Tail(m) ELSE m
    IN  /\ Len(body) >= 3
        /\ body[Len(body) - 1] = "."
        /\ \A i \in 1..Len(body) : i # Len(body) - 1 => IsDigit(body[i])

\* C12: every mark that is not empty is a number written with exactly one
\* decimal place, whichever rule produced it.
C12_OneDecimal ==
    pc = "converted" =>
        \A k \in 1..Len(processedData) :
            processedData[k].Marks # <<>> => IsOneDecimal(processedData[k].Marks)

Abs(x) == IF x < 0 THEN 0 - x ELSE x

\* x is y rounded to one decimal place
IsRoundingOf(x, y) == Abs(x.n * y.d - y.n * x.d) * 20 <= x.d * y.d

HasDecimalPoint(str) == \E i \in 1..Len(str) : str[i] = "."

IsPositiveNumber(str) == ~isNaN(parseFloat(str)) /\ parseFloat(str).n > 0

\* C13 as stated: the totalMarks of every detected assignment and the
\* TotalMarksPossible of every record is a strictly positive number written
\* with a decimal point.
C13_Original ==
    pc = "converted" =>
        /\ \A k \in 1..Len(detectedAssignments(parsed)) :
              /\ IsPositiveNumber(detectedAssignments(parsed)[k].totalMarks)
              /\ HasDecimalPoint(detectedAssignments(parsed)[k].totalMarks)
        /\ \A k \in 1..Len(processedData) :
              /\ IsPositiveNumber(processedData[k].TotalMarksPossible)
              /\ HasDecimalPoint(processedData[k].TotalMarksPossible)

\* C13 amended: the totalMarks of every detected assignment is its max-marks
\* cell without the characters other than digits and ".", and parses as a
\* number that is zero or more (zero for a cell such as "0"); the
\* TotalMarksPossible of every record is that number of its column written
\* with exactly one decimal place.
C13_TotalMarks ==
    pc = "converted" =>
        /\ \A k \in 1..Len(detectedAssignments(parsed)) :
              LET a == detectedAssignments(parsed)[k]
              IN  /\ a.originalIndex \in ValidColumns
                  /\ a.totalMarks =
                         SelectSeq(TableCell(TableHeader + 1, a.originalIndex),
                                   LAMBDA c : IsDigit(c) \/ c = ".")
                  /\ ~isNaN(parseFloat(a.totalMarks))
                  /\ parseFloat(a.totalMarks).n >= 0
        /\ \A k \in 1..Len(processedData) :
              /\ IsOneDecimal(processedData[k].TotalMarksPossible)
              /\ processedData[k].TotalMarksPossible[1] # "-"
              /\ \E i \in ValidColumns :
                    /\ ColumnName(i) = processedData[k].AssignmentName
                    /\ IsRoundingOf(parseFloat(processedData[k].TotalMarksPossible),
                                    TotalOfColumn(i))

\* a max-marks cell "0" passed the validity test: the records of the column
\* carry the total 0.0
C13_Witness ==
    /\ pc = "converted"
    /\ Len(detectedAssignments(parsed)) = 1
    /\ detectedAssignments(parsed)[1].totalMarks = <<"0">>
    /\ Len(processedData) = 3
    /\ processedData[1].TotalMarksPossible = <<"0", ".", "0">>

(***************************************************************************)
(* Missing max-marks or category rows                                      *)
(***************************************************************************)
\* a category row carries the category label in its first cell
IsCategoryRow(r) == TableCell(r, 0) \in {CategoryZh, CategoryEn}

\* the header row is not followed by a max-marks row and then a category row
RowsMissing == Len(parsed) < TableHeader + 3 \/ ~IsCategoryRow(TableHeader + 2)

\* C14: when the max-marks row or the category row is missing after the
\* header row, the conversion detects no assignment and returns no record.
C14_MissingRows ==
    (pc = "converted" /\ RowsMissing) =>
        /\ detectedAssignments(parsed) = <<>>
        /\ processedData = <<>>

(***************************************************************************)
(* The average of a column                                                 *)
(***************************************************************************)
\* the average the classifier computes in its pass over column i
ClassifiedAverage(i) ==
    columnStatOf(AssignmentOfColumn(i), studentDataRows(parsed, TableHeader),
                 gradeMapping).average

\* the mapping has an entry under the uppercased cell whose value parses as a number
HasNumericEntry(c) ==
    \E k \in 1..Len(gradeMapping) :
        /\ gradeMapping[k].key = toUpperCase(c)
        /\ ~isNaN(parseFloat(gradeMapping[k].value))

PercentageOf(c) ==
    parseFloat(gradeMapping[CHOOSE k \in 1..Len(gradeMapping) :
                                gradeMapping[k].key = toUpperCase(c)].value)

\* the rows whose cell of column i is in the accumulation set
ContributingRows(i) ==
    {r \in QualifyingRows :
        LET c == CellText(<<r, i>>)
        IN  /\ c \notin {<<>>, <<"-">>, trim(ColumnName(i))}
            /\ ~isNaN(parseFloat(c)) \/ HasNumericEntry(c)}

\* what the cell of row r contributes: its value, or (percentage / 100) x totalMarks
ContributionOf(r, i) ==
    LET c == CellText(<<r, i>>)
    IN  IF ~isNaN(parseFloat(c)) THEN parseFloat(c)
        ELSE Num(PercentageOf(c).n * TotalOfColumn(i).n,
                 PercentageOf(c).d * 100 * TotalOfColumn(i).d)

RECURSIVE SumOfContributions(_, _)
SumOfContributions(rows, i) ==
    IF rows = {} THEN Num(0, 1)
    ELSE LET r == CHOOSE x \in rows : TRUE
             rest == SumOfContributions(rows \ {r}, i)
         IN  Num(ContributionOf(r, i).n * rest.d + rest.n * ContributionOf(r, i).d,
                 ContributionOf(r, i).d * rest.d)

RECURSIVE GCD(_, _)
GCD(a, b) == IF b = 0 THEN a ELSE GCD(b, a % b)

\* the fraction x in lowest terms
LowestTerms(x) == Num(x.n \div GCD(Abs(x.n), x.d), x.d \div GCD(Abs(x.n), x.d))

\* C15: the average of a column is the arithmetic mean of its accumulation
\* set over the qualifying rows: a cell that parses as a number contributes
\* its value, a grade or free-text cell with a numeric mapping entry under
\* its uppercase form contributes (percentage / 100) x totalMarks, an empty
\* cell, "-", the assignment name and an unmapped cell contribute nothing;
\* the average is 0 when nothing contributes.
C15_Average ==
    pc = "converted" =>
        \A i \in ValidColumns :
            LET rows == ContributingRows(i)
                sum  == SumOfContributions(rows, i)
                avg  == ClassifiedAverage(i)
            IN  IF rows = {} THEN avg.n = 0
                ELSE LowestTerms(avg) = LowestTerms(Num(sum.n, sum.d * Cardinality(rows)))

\* a column of total 50 holding 7.5 and a status the mapping gives 50 percent:
\* the average is (7.5 + 25) / 2
C15_Witness ==
    /\ pc = "converted"
    /\ gradeMapping = defaultMapping
    /\ 1 \in ValidColumns
    /\ Cardinality(ContributingRows(1)) = 2
    /\ \E r \in QualifyingRows : CellText(<<r, 1>>) = <<"7", ".", "5">>
    /\ \E r \in QualifyingRows : CellText(<<r, 1>>) = NeedsFix
    /\ LowestTerms(ClassifiedAverage(1)) = Num(65, 4)

(***************************************************************************)
(* Column statistics and assignments of one name                           *)
(***************************************************************************)
\* the statistics the classifier computes in its pass over column i
StatOfColumn(i) ==
    columnStatOf(AssignmentOfColumn(i), studentDataRows(parsed, TableHeader), gradeMapping)

\* C16: every valid assignment column has its own statistics: the mark of
\* every record is the one the resolver gives with the type and the average
\* computed from the record's own column, also when two columns carry one
\* name.
C16_OneToOne ==
    pc = "converted" =>
        \A k \in RecordIndices :
            processedData[k].Marks =
                resolveMark(CellText(PairOfRecord(k)), StatOfColumn(PairOfRecord(k)[2]),
                            TotalOfColumn(PairOfRecord(k)[2]), gradeMapping)

(***************************************************************************)
(* The table parseCSV returns                                              *)
(***************************************************************************)
\* the lines of the file that are not blank
NonBlankLines == SelectSeq(splitLines(rawContent), LAMBDA line : trim(line) # <<>>)

\* C17: all rows of the table parseCSV returns have the same number of cells,
\* the number of cells of the first line that is not blank: a shorter row is
\* padded and no row is wider than the first.
C17_Rectangular ==
    (pc = "input" /\ NonBlankLines # <<>>) =>
        /\ Len(parsed) = Len(NonBlankLines)
        /\ \A k \in 1..Len(parsed) : Len(parsed[k]) = Len(parseCSVLine(NonBlankLines[1]))

(***************************************************************************)
(* The keys of the mapping                                                 *)
(***************************************************************************)
\* C18: after any sequence of file selections and editor operations from
\* the default mapping, every key of the mapping is its own uppercase form,
\* the form the resolver looks up.
C18_KeysUppercase == \A k \in KeysOf(gradeMapping) : k = toUpperCase(k)

====
